---- MODULE Spec2Model ----
(***************************************************************************)
(* Model of the popgene-pipelines scripts:                                 *)
(*   masking-vcf-local-ancestry/scripts/mask_ancestry.py   (SpecMask,      *)
(*                                                 SpecLoad, SpecScan)     *)
(*   masking-vcf-local-ancestry/scripts/vcf_sipliter.py    (SpecSplit)     *)
(*   local-ancestry/scripts/global_ancestry.py             (SpecGA,        *)
(*                                                           SpecBed)      *)
(*   local-ancestry/scripts/collect_beds.py                (SpecCollect)   *)
(*   admixture-visualization/ind2pop.py                    (SpecInd2pop)   *)
(* Every script is a batch run: Init holds the input files, the actions    *)
(* are the steps of its main().                                            *)
(***************************************************************************)
EXTENDS Integers, Sequences, FiniteSets, TLC

VARIABLES
    \* ---- mask_ancestry.py
    ANC,          \* args.ANC, a string
    vcf,          \* the input VCF: sequence of [CHROM, POS, genotypes]
    msp,          \* the MSP file: [columns, rows], rows = sequence of [chm, spos, epos, anc]
    files,        \* which of the two input paths exist: [vcf, msp]
    gt_live,      \* cyvcf2: does an in-place edit of variant.genotypes reach the record?
    pc,           \* position of main(): "start", "scan", "done", "error", "crashed"
    lai_data,     \* the restricted MSP rows (load_and_restrict_msp's result)
    i,            \* 1-based index of the next variant of vcf_reader
    written,      \* records given to vcf_writer.write_record, in order
    warnings,     \* indices of the variants skipped with logger.warning
    writer,       \* "none" (Writer not constructed), "open", "closed"
    err,          \* the exception that ended main(), "" when none
    \* ---- a call of retrieve_lai_at on its own
    call,         \* the arguments [pos, chrom, lai_data]
    ret,          \* [exc |-> "pending"] before the call, then what it returned or raised
    \* ---- vcf_sipliter.py
    sp_vcf,       \* the input VCF: sequence of [CHROM, POS]
    n_split,      \* --n_split
    sp_pc,        \* position of main(): "start", "split", "write", "done", "error"
    sp_positions, \* main()'s positions: vcf_positions' sorted positions
    sp_chrom,     \* main()'s chrom: vcf_positions' chromosome
    pos_splits,   \* np.array_split's chunks
    regions,      \* split_positions' result
    out_vcfs,     \* the output files written so far: for each, the indices of its records
    sp_err,       \* the exception main() reported, "" when none
    \* ---- global_ancestry.py
    bed_dir,      \* the BED directory: file name -> rows [ancestry, spos, epos]
    ga_pc,        \* position of main(): "start", "load", "compute", "save", "done", "crashed"
    bed_files,    \* list_bed_files' dictionary: sample name -> list of paths
    bed_data,     \* the frames loaded so far: sequence of sequences of rows
    ancestry_proportions, \* the frames computed from bed_data
    out_csv,      \* the rows saved to out_file: [sample, cells]
    ga_err,       \* the exception that ended main(), "" when none
    \* ---- collect_beds.py
    bed_dirs,     \* the input directories, in argument order: file name -> rows
    cb_pc,        \* position of main(): "scan", "write", "done"
    cb_dir,       \* 1-based index of the next directory of the first loop
    id_hap_to_files, \* ID_HAP -> list of paths [dir, name]
    id_haps,      \* the keys of id_hap_to_files in insertion order
    outdir,       \* the output directory: file name -> rows
    \* ---- ind2pop.py
    popinfo,      \* the population info file: sequence of rows [id, label]
    sample_order, \* the sample IDs of the sample order file (its 2nd column), in order
    ip_pc,        \* position of main(): "start", "ind2pop", "pop_order", "done", "crashed"
    ind2pop_data, \* main()'s ind2pop_data: the labels, in order
    ind2pop_txt,  \* ind2pop.txt: [exists, lines]
    pop_order_txt \* pop_order.txt: [exists, lines]

maskVars == <<ANC, vcf, msp, files, gt_live, pc, lai_data, i, written, warnings, writer, err>>

laiVars == <<call, ret>>

splitVars == <<sp_vcf, n_split, sp_pc, sp_positions, sp_chrom, pos_splits, regions, out_vcfs, sp_err>>

gaVars == <<bed_dir, ga_pc, bed_files, bed_data, ancestry_proportions, out_csv, ga_err>>

cbVars == <<bed_dirs, cb_pc, cb_dir, id_hap_to_files, id_haps, outdir>>

ipVars == <<popinfo, sample_order, ip_pc, ind2pop_data, ind2pop_txt, pop_order_txt>>

vars == <<maskVars, laiVars, splitVars, gaVars, cbVars, ipVars>>

notMask == <<laiVars, splitVars, gaVars, cbVars, ipVars>>

notLai == <<maskVars, splitVars, gaVars, cbVars, ipVars>>

notSplit == <<maskVars, laiVars, gaVars, cbVars, ipVars>>

notGA == <<maskVars, laiVars, splitVars, cbVars, ipVars>>

notCB == <<maskVars, laiVars, splitVars, gaVars, ipVars>>

notIP == <<maskVars, laiVars, splitVars, gaVars, cbVars>>

\* ------------------------------------------------------------------------
\* Bounds of the model
MaxVariants == 2
MaxRows == 2
MaxRecords == 4
MaxSplit == 3
MaxSegments == 2
MaxFiles == 3
MaxDirs == 2

\* ------------------------------------------------------------------------
\* Generic helpers
Range(s) == {s[k] : k \in DOMAIN s}

SeqsUpTo(S, n) == UNION {[1..k -> S] : k \in 0..n}

Min(S) == CHOOSE x \in S : \A y \in S : x <= y

Max(S) == CHOOSE x \in S : \A y \in S : x >= y

\* ========================================================================
\* mask_ancestry.py
\* ========================================================================

\* vcf_reader.samples
VcfSamples == <<"s1", "s2">>

\* Python's str() of a chromosome value or an ancestry code. pandas reads a
\* numeric column as integers ([int |-> 1]); cyvcf2 and a non-numeric column
\* give text ([str |-> "chr1"]).
PyStr(v) == IF "int" \in DOMAIN v THEN ToString(v.int) ELSE v.str

\* f"{sample_name}.0", f"{sample_name}.1"
HapColumn(sample_name, h) == sample_name \o "." \o ToString(h)

get_vcf_range_any_chrom(v) ==
    IF Len(v) = 0 THEN [exc |-> "TypeError"]
    ELSE LET positions == {v[k].POS : k \in 1..Len(v)}
         IN  [exc |-> "", min_position |-> Min(positions),
              max_position |-> Max(positions), chromosome |-> v[1].CHROM]

\* get_vcf_range: callset is None for a VCF without variants, and subscripting
\* it raises TypeError; otherwise (min, max, chromosome) or ValueError.
get_vcf_range(v) ==
    IF Len(v) = 0 THEN [exc |-> "TypeError"]
    ELSE LET positions == {v[k].POS : k \in 1..Len(v)}
             chromosomes == {v[k].CHROM : k \in 1..Len(v)}
         IN  IF Cardinality(chromosomes) /= 1 THEN [exc |-> "ValueError"]
             ELSE [exc |-> "", min_position |-> Min(positions),
                   max_position |-> Max(positions),
                   chromosome |-> CHOOSE c \in chromosomes : TRUE]

\* DataFrame.drop_duplicates(): keep the first of equal rows, order kept
RECURSIVE drop_duplicates(_)
drop_duplicates(rows) ==
    IF rows = <<>> THEN <<>>
    ELSE LET front == drop_duplicates(SubSeq(rows, 1, Len(rows) - 1))
             last == rows[Len(rows)]
         IN  IF last \in Range(front) THEN front ELSE Append(front, last)

\* load_and_restrict_msp
load_and_restrict_msp(m, v) ==
    LET range == get_vcf_range(v)
        chromosomes_in_ancestry == {m.rows[k].chm : k \in 1..Len(m.rows)}
    IN  IF range.exc /= "" THEN [exc |-> range.exc, data |-> <<>>]
        ELSE IF Cardinality(chromosomes_in_ancestry) /= 1
             THEN [exc |-> "ValueError", data |-> <<>>]
        ELSE LET msp_chromosome == CHOOSE c \in chromosomes_in_ancestry : TRUE
                 InRange(r) == r.spos <= range.max_position /\ r.epos >= range.min_position
             IN  IF PyStr(range.chromosome) /= PyStr(msp_chromosome)
                 THEN [exc |-> "ValueError", data |-> <<>>]
                 ELSE [exc |-> "", data |-> drop_duplicates(SelectSeq(m.rows, InRange))]

retrieve_lai_at_exclusive(pos, chrom, lai) ==
    LET Covers(r) == r.spos <= pos /\ r.epos > pos
        SameChrom(r) == PyStr(r.chm) = PyStr(chrom)
        lai_pos == SelectSeq(SelectSeq(lai, Covers), SameChrom)
    IN  IF Len(lai_pos) < 1 THEN [exc |-> "ValueError", msg |-> "not found", lai_pos |-> <<>>]
        ELSE IF Len(lai_pos) > 1
             THEN [exc |-> "ValueError", msg |-> "multiple ranges", lai_pos |-> <<>>]
        ELSE [exc |-> "", msg |-> "", lai_pos |-> lai_pos]

retrieve_lai_at_any_chrom(pos, chrom, lai) ==
    LET Covers(r) == r.spos <= pos /\ r.epos >= pos
        lai_pos == SelectSeq(lai, Covers)
    IN  IF Len(lai_pos) < 1 THEN [exc |-> "ValueError", msg |-> "not found", lai_pos |-> <<>>]
        ELSE IF Len(lai_pos) > 1
             THEN [exc |-> "ValueError", msg |-> "multiple ranges", lai_pos |-> <<>>]
        ELSE [exc |-> "", msg |-> "", lai_pos |-> lai_pos]

\* retrieve_lai_at: the rows with spos <= pos <= epos whose chromosome, as a
\* string, is chrom's; ValueError unless exactly one row is left.
retrieve_lai_at(pos, chrom, lai) ==
    LET Covers(r) == r.spos <= pos /\ r.epos >= pos
        SameChrom(r) == PyStr(r.chm) = PyStr(chrom)
        lai_pos == SelectSeq(SelectSeq(lai, Covers), SameChrom)
    IN  IF Len(lai_pos) < 1 THEN [exc |-> "ValueError", msg |-> "not found", lai_pos |-> <<>>]
        ELSE IF Len(lai_pos) > 1
             THEN [exc |-> "ValueError", msg |-> "multiple ranges", lai_pos |-> <<>>]
        ELSE [exc |-> "", msg |-> "", lai_pos |-> lai_pos]

\* sample_ancestry_at: str() of the two haplotype columns of the sample in the
\* first row of lai_pos; a column the MSP file lacks raises KeyError.
sample_ancestry_at(lai_pos, sample_index, sample_name_map) ==
    LET sample_name == sample_name_map[sample_index]
        sample_hap_0 == HapColumn(sample_name, 0)
        sample_hap_1 == HapColumn(sample_name, 1)
        row == lai_pos[1]
    IN  IF sample_hap_0 \notin DOMAIN row.anc \/ sample_hap_1 \notin DOMAIN row.anc
        THEN [exc |-> "KeyError", h0 |-> "", h1 |-> ""]
        ELSE [exc |-> "", h0 |-> PyStr(row.anc[sample_hap_0]),
              h1 |-> PyStr(row.anc[sample_hap_1])]

Masked_when_equal(anc_h, anc_arg) == anc_h = anc_arg

\* the test of main()'s two ifs: is this haplotype set to -1?
Masked(anc_h, anc_arg) == anc_h /= anc_arg

\* the loop of lines 193-198 if a sample without columns were passed over
RECURSIVE MaskSamples_passing_over(_, _, _, _)
MaskSamples_passing_over(genotypes, lai_pos, anc_arg, k) ==
    IF k = 0 THEN [exc |-> "", genotypes |-> genotypes]
    ELSE LET before == MaskSamples_passing_over(genotypes, lai_pos, anc_arg, k - 1)
             a == sample_ancestry_at(lai_pos, k, VcfSamples)
             g == before.genotypes[k]
             g0 == IF Masked(a.h0, anc_arg) THEN [g EXCEPT ![1] = -1] ELSE g
             g1 == IF Masked(a.h1, anc_arg) THEN [g0 EXCEPT ![2] = -1] ELSE g0
         IN  IF a.exc /= "" THEN before
             ELSE [exc |-> "", genotypes |-> [before.genotypes EXCEPT ![k] = g1]]

\* main(), lines 193-198: the list variant.genotypes after the first k samples
\* of the loop; the loop stops at the first exception.
RECURSIVE MaskSamples(_, _, _, _)
MaskSamples(genotypes, lai_pos, anc_arg, k) ==
    IF k = 0 THEN [exc |-> "", genotypes |-> genotypes]
    ELSE LET before == MaskSamples(genotypes, lai_pos, anc_arg, k - 1)
             a == sample_ancestry_at(lai_pos, k, VcfSamples)
             g == before.genotypes[k]
             g0 == IF Masked(a.h0, anc_arg) THEN [g EXCEPT ![1] = -1] ELSE g
             g1 == IF Masked(a.h1, anc_arg) THEN [g0 EXCEPT ![2] = -1] ELSE g0
         IN  IF before.exc /= "" THEN before
             ELSE IF a.exc /= "" THEN [exc |-> a.exc, genotypes |-> before.genotypes]
             ELSE [exc |-> "", genotypes |-> [before.genotypes EXCEPT ![k] = g1]]

\* vcf_writer.write_record(variant) writes the record behind the variant. The
\* list returned by variant.genotypes was edited in place and never assigned
\* back; whether the record sees the edit is cyvcf2's (gt_live).
RecordWritten(variant, genotypes, live) ==
    [CHROM |-> variant.CHROM, POS |-> variant.POS,
     genotypes |-> IF live THEN genotypes ELSE variant.genotypes]

\* ---- actions of main()

\* lines 171-181: validate_input_files, load_and_restrict_msp, VCF(), Writer()
Load ==
    /\ pc = "start"
    /\ IF ~files.vcf \/ ~files.msp
       THEN /\ pc' = "error"
            /\ err' = "FileNotFoundError"
            /\ UNCHANGED <<lai_data, writer, i>>
       ELSE LET loaded == load_and_restrict_msp(msp, vcf)
            IN  IF loaded.exc /= ""
                THEN /\ pc' = "error"
                     /\ err' = loaded.exc
                     /\ UNCHANGED <<lai_data, writer, i>>
                ELSE /\ pc' = "scan"
                     /\ lai_data' = loaded.data
                     /\ writer' = "open"
                     /\ i' = 1
                     /\ UNCHANGED err
    /\ UNCHANGED <<ANC, vcf, msp, files, gt_live, written, warnings>>
    /\ UNCHANGED notMask

\* lines 185-201: one pass of the for loop
ProcessVariant ==
    /\ pc = "scan"
    /\ i <= Len(vcf)
    /\ LET variant == vcf[i]
           found == retrieve_lai_at(variant.POS, variant.CHROM, lai_data)
           masked == MaskSamples(variant.genotypes, found.lai_pos, ANC, Len(variant.genotypes))
       IN  IF found.exc = "ValueError"
           THEN /\ warnings' = Append(warnings, i)
                /\ i' = i + 1
                /\ UNCHANGED <<written, pc, err>>
           ELSE IF masked.exc /= ""
                THEN /\ pc' = "crashed"
                     /\ err' = masked.exc
                     /\ UNCHANGED <<written, warnings, i>>
                ELSE /\ written' = Append(written,
                                     [idx |-> i, rec |-> RecordWritten(variant, masked.genotypes, gt_live)])
                     /\ i' = i + 1
                     /\ UNCHANGED <<warnings, pc, err>>
    /\ UNCHANGED <<ANC, vcf, msp, files, gt_live, lai_data, writer>>
    /\ UNCHANGED notMask

\* lines 203-206: the loop is exhausted
Close ==
    /\ pc = "scan"
    /\ i > Len(vcf)
    /\ writer' = "closed"
    /\ pc' = "done"
    /\ UNCHANGED <<ANC, vcf, msp, files, gt_live, lai_data, i, written, warnings, err>>
    /\ UNCHANGED notMask

NextMask == Load \/ ProcessVariant \/ Close

\* ---- inputs

Positions == 1..3

AllColumns == {HapColumn(VcfSamples[s], h) : s \in 1..Len(VcfSamples), h \in {0, 1}}

\* the column sets of the MSP files considered: every sample, or s2 left out
ColumnSets == {AllColumns, {HapColumn("s1", 0), HapColumn("s1", 1)}}

\* ancestry assignments of a row: a mixed one and a uniform one
AncestryPatterns(columns) ==
    {[c \in columns |-> IF c \in {"s1.0", "s2.1"} THEN [int |-> 0] ELSE [int |-> 1]],
     [c \in columns |-> [int |-> 1]]}

\* the sample genotypes [allele0, allele1, phased] of the variants at a
\* position, -1 = missing
GenotypesAt(pos) ==
    IF pos % 2 = 1 THEN << <<0, 1, TRUE>>, <<1, 0, TRUE>> >>
    ELSE << <<1, -1, FALSE>>, <<0, 0, TRUE>> >>

Intervals == {sp \in Positions \X Positions : sp[1] <= sp[2]}

MspRows(columns, chms, intervals) ==
    {[chm |-> c, spos |-> sp[1], epos |-> sp[2], anc |-> a] :
        c \in chms, sp \in intervals, a \in AncestryPatterns(columns)}

Variants(chroms) ==
    {[CHROM |-> c, POS |-> p, genotypes |-> GenotypesAt(p)] : c \in chroms, p \in Positions}

SortedByPos(v) == \A k \in 1..(Len(v) - 1) : v[k].POS <= v[k + 1].POS

\* a '#chm' column is all integers or all text
OneKind(rows) ==
    \A j, k \in 1..Len(rows) : ("int" \in DOMAIN rows[j].chm) = ("int" \in DOMAIN rows[k].chm)

MaskStart ==
    /\ pc = "start"
    /\ lai_data = <<>>
    /\ i = 0
    /\ written = <<>>
    /\ warnings = <<>>
    /\ writer = "none"
    /\ err = ""

MaskIdle ==
    /\ ANC = ""
    /\ gt_live = FALSE
    /\ files = [vcf |-> FALSE, msp |-> FALSE]
    /\ vcf = <<>>
    /\ msp = [columns |-> {}, rows |-> <<>>]
    /\ pc = "idle"
    /\ lai_data = <<>>
    /\ i = 0
    /\ written = <<>>
    /\ warnings = <<>>
    /\ writer = "none"
    /\ err = ""

NotCalled == [exc |-> "pending", msg |-> "", lai_pos |-> <<>>]

LaiIdle ==
    /\ call = <<>>
    /\ ret = NotCalled

SplitIdle ==
    /\ sp_vcf = <<>>
    /\ n_split = 0
    /\ sp_pc = "idle"
    /\ sp_positions = <<>>
    /\ sp_chrom = ""
    /\ pos_splits = <<>>
    /\ regions = <<>>
    /\ out_vcfs = <<>>
    /\ sp_err = ""

GAIdle ==
    /\ bed_dir = <<>>
    /\ ga_pc = "idle"
    /\ bed_files = <<>>
    /\ bed_data = <<>>
    /\ ancestry_proportions = <<>>
    /\ out_csv = <<>>
    /\ ga_err = ""

CBIdle ==
    /\ bed_dirs = <<>>
    /\ cb_pc = "idle"
    /\ cb_dir = 0
    /\ id_hap_to_files = <<>>
    /\ id_haps = <<>>
    /\ outdir = <<>>

NoFile == [exists |-> FALSE, lines |-> <<>>]

IPIdle ==
    /\ popinfo = <<>>
    /\ sample_order = <<>>
    /\ ip_pc = "idle"
    /\ ind2pop_data = <<>>
    /\ ind2pop_txt = NoFile
    /\ pop_order_txt = NoFile

\* Masking runs: one chromosome in both files ("1" in the VCF, the integer 1
\* in the MSP file), intervals and ancestries varied.
InitMask ==
    /\ ANC \in {"0", "1"}
    /\ gt_live \in BOOLEAN
    /\ files = [vcf |-> TRUE, msp |-> TRUE]
    /\ vcf \in {v \in SeqsUpTo(Variants({[str |-> "1"]}), MaxVariants) : SortedByPos(v)}
    /\ \E columns \in ColumnSets :
         \E rows \in SeqsUpTo(MspRows(columns, {[int |-> 1]}, Intervals), MaxRows) :
            msp = [columns |-> columns, rows |-> rows]
    /\ MaskStart
    /\ LaiIdle
    /\ SplitIdle
    /\ GAIdle
    /\ CBIdle
    /\ IPIdle

SpecMask == InitMask /\ [][NextMask]_vars

\* Scans to their end: as InitMask with two overlapping intervals and the
\* mixed ancestry assignment only.
ScanIntervals == {<<1, 2>>, <<2, 3>>}

ScanRows(columns) ==
    {r \in MspRows(columns, {[int |-> 1]}, ScanIntervals) :
        \E c \in DOMAIN r.anc : r.anc[c] = [int |-> 0]}

InitScan ==
    /\ ANC \in {"0", "1"}
    /\ gt_live \in BOOLEAN
    /\ files = [vcf |-> TRUE, msp |-> TRUE]
    /\ vcf \in {v \in SeqsUpTo(Variants({[str |-> "1"]}), MaxVariants) : SortedByPos(v)}
    /\ \E columns \in ColumnSets :
         \E rows \in SeqsUpTo(ScanRows(columns), MaxRows) :
            msp = [columns |-> columns, rows |-> rows]
    /\ MaskStart
    /\ LaiIdle
    /\ SplitIdle
    /\ GAIdle
    /\ CBIdle
    /\ IPIdle

\* main() is a sequential program that is run to its end or to its first
\* uncaught exception: a step that can be taken is taken.
SpecScan == InitScan /\ [][NextMask]_vars /\ WF_vars(NextMask)

\* Loading runs: the chromosomes of both files varied, a missing input file,
\* one interval over all positions.
InitLoad ==
    /\ ANC = "1"
    /\ gt_live \in BOOLEAN
    /\ \E present \in {<<TRUE, TRUE>>, <<FALSE, TRUE>>, <<TRUE, FALSE>>} :
         /\ files = [vcf |-> present[1], msp |-> present[2]]
         /\ vcf \in {v \in SeqsUpTo(Variants({[str |-> "1"], [str |-> "chr1"]}),
                                    IF present[1] THEN MaxVariants ELSE 0) : SortedByPos(v)}
         /\ \E rows \in SeqsUpTo(MspRows(AllColumns,
                                         {[int |-> 1], [int |-> 2], [str |-> "chr1"], [str |-> "chr2"]},
                                         {<<1, 3>>}),
                                 IF present[2] THEN MaxRows ELSE 0) :
               /\ OneKind(rows)
               /\ msp = [columns |-> AllColumns, rows |-> rows]
    /\ MaskStart
    /\ LaiIdle
    /\ SplitIdle
    /\ GAIdle
    /\ CBIdle
    /\ IPIdle

SpecLoad == InitLoad /\ [][NextMask]_vars

\* ---- retrieve_lai_at called on its own

Retrieve ==
    /\ ret = NotCalled
    /\ ret' = retrieve_lai_at(call.pos, call.chrom, call.lai_data)
    /\ UNCHANGED call
    /\ UNCHANGED notLai

NextLai == Retrieve

InitLai ==
    /\ \E pos \in Positions, chrom \in {[str |-> "1"], [str |-> "2"]} :
         \E rows \in SeqsUpTo(MspRows(AllColumns, {[int |-> 1], [int |-> 2]}, Intervals), MaxRows) :
            call = [pos |-> pos, chrom |-> chrom, lai_data |-> rows]
    /\ ret = NotCalled
    /\ MaskIdle
    /\ SplitIdle
    /\ GAIdle
    /\ CBIdle
    /\ IPIdle

SpecLai == InitLai /\ [][NextLai]_vars

\* ========================================================================
\* vcf_sipliter.py
\* ========================================================================

\* np.sort of a sequence of integers
RECURSIVE np_sort(_)
np_sort(xs) ==
    IF xs = <<>> THEN <<>>
    ELSE LET m == Min(Range(xs))
             k == CHOOSE j \in 1..Len(xs) : xs[j] = m
         IN  <<m>> \o np_sort(SubSeq(xs, 1, k - 1) \o SubSeq(xs, k + 1, Len(xs)))

\* vcf_positions: the sorted positions and the chromosome; any failure is
\* re-raised as RuntimeError (an empty callset, several chromosomes).
vcf_positions(v) ==
    LET chrom_set == {v[k].CHROM : k \in 1..Len(v)}
    IN  IF Len(v) = 0 THEN [exc |-> "RuntimeError", positions |-> <<>>, chrom |-> ""]
        ELSE IF Cardinality(chrom_set) /= 1
             THEN [exc |-> "RuntimeError", positions |-> <<>>, chrom |-> ""]
        ELSE [exc |-> "", positions |-> np_sort([k \in 1..Len(v) |-> v[k].POS]),
              chrom |-> CHOOSE c \in chrom_set : TRUE]

array_split_dropping_rest(ary, n) ==
    LET each == Len(ary) \div n
    IN  [k \in 1..n |-> SubSeq(ary, (k - 1) * each + 1, k * each)]

\* np.array_split(ary, n): n consecutive chunks, the first len % n of them one
\* element longer than the others
array_split(ary, n) ==
    LET each == Len(ary) \div n
        extras == Len(ary) % n
        Start(k) == (k - 1) * each + (IF k - 1 < extras THEN k - 1 ELSE extras) + 1
    IN  [k \in 1..n |-> SubSeq(ary, Start(k), Start(k + 1) - 1)]

\* f'{chrom}:{ps[0]}-{ps[-1]}', kept with the fields the region query reads
\* back from it
Region(c, ps) ==
    [text |-> c \o ":" \o ToString(ps[1]) \o "-" \o ToString(ps[Len(ps)]),
     chrom |-> c, first |-> ps[1], last |-> ps[Len(ps)]]

\* split_positions
split_positions(ps, n, c) ==
    IF n <= 0 THEN [exc |-> "ValueError", pos_splits |-> <<>>, regions |-> <<>>]
    ELSE IF Len(ps) < n THEN [exc |-> "ValueError", pos_splits |-> <<>>, regions |-> <<>>]
    ELSE LET chunks == array_split(ps, n)
         IN  [exc |-> "", pos_splits |-> chunks,
              regions |-> [k \in 1..n |-> Region(c, chunks[k])]]

\* vcf(region): the indices of the records of the region's chromosome whose
\* position lies in first..last, in file order
region_query(v, region) ==
    LET InRegion(k) == /\ v[k].CHROM = region.chrom
                       /\ region.first <= v[k].POS
                       /\ v[k].POS <= region.last
    IN  SelectSeq([k \in 1..Len(v) |-> k], InRegion)

\* ---- actions of main()

\* line 60
ReadPositions ==
    /\ sp_pc = "start"
    /\ LET got == vcf_positions(sp_vcf)
       IN  IF got.exc /= ""
           THEN /\ sp_pc' = "error"
                /\ sp_err' = got.exc
                /\ UNCHANGED <<sp_positions, sp_chrom>>
           ELSE /\ sp_pc' = "split"
                /\ sp_positions' = got.positions
                /\ sp_chrom' = got.chrom
                /\ UNCHANGED sp_err
    /\ UNCHANGED <<sp_vcf, n_split, pos_splits, regions, out_vcfs>>
    /\ UNCHANGED notSplit

\* line 61
SplitPositions ==
    /\ sp_pc = "split"
    /\ LET got == split_positions(sp_positions, n_split, sp_chrom)
       IN  IF got.exc /= ""
           THEN /\ sp_pc' = "error"
                /\ sp_err' = got.exc
                /\ UNCHANGED <<pos_splits, regions>>
           ELSE /\ sp_pc' = "write"
                /\ pos_splits' = got.pos_splits
                /\ regions' = got.regions
                /\ UNCHANGED sp_err
    /\ UNCHANGED <<sp_vcf, n_split, sp_positions, sp_chrom, out_vcfs>>
    /\ UNCHANGED notSplit

\* lines 38-50: one pass of write_to_vcf_files' loop, writing the next region
WriteRegion ==
    /\ sp_pc = "write"
    /\ Len(out_vcfs) < Len(regions)
    /\ out_vcfs' = Append(out_vcfs, region_query(sp_vcf, regions[Len(out_vcfs) + 1]))
    /\ UNCHANGED <<sp_vcf, n_split, sp_pc, sp_positions, sp_chrom, pos_splits, regions, sp_err>>
    /\ UNCHANGED notSplit

\* the loop is exhausted and main() returns
SplitDone ==
    /\ sp_pc = "write"
    /\ Len(out_vcfs) = Len(regions)
    /\ sp_pc' = "done"
    /\ UNCHANGED <<sp_vcf, n_split, sp_positions, sp_chrom, pos_splits, regions, out_vcfs, sp_err>>
    /\ UNCHANGED notSplit

NextSplit == ReadPositions \/ SplitPositions \/ WriteRegion \/ SplitDone

\* an indexed VCF: records in position order, each on chromosome "1" or "2"
InitSplit ==
    /\ sp_vcf \in {v \in SeqsUpTo([CHROM : {"1", "2"}, POS : Positions], MaxRecords) :
                     \A k \in 1..(Len(v) - 1) : v[k].POS <= v[k + 1].POS}
    /\ n_split \in (-1)..MaxSplit
    /\ sp_pc = "start"
    /\ sp_positions = <<>>
    /\ sp_chrom = ""
    /\ pos_splits = <<>>
    /\ regions = <<>>
    /\ out_vcfs = <<>>
    /\ sp_err = ""
    /\ MaskIdle
    /\ LaiIdle
    /\ GAIdle
    /\ CBIdle
    /\ IPIdle

SpecSplit == InitSplit /\ [][NextSplit]_vars

\* ========================================================================
\* File names
\* ========================================================================
\* A file name is a sequence of pieces of text, "a_0.bed" being <<"a", "_0.bed">>;
\* the pieces are cut so that every '.', '_0.bed' and '_1.bed' of a name starts
\* a piece.

\* the characters of a piece, as code points
PieceCodes(piece) ==
    CASE piece = "a" -> <<97>>
      [] piece = "b" -> <<98>>
      [] piece = ".bed" -> <<46, 98, 101, 100>>
      [] piece = "_0.bed" -> <<95, 48, 46, 98, 101, 100>>
      [] piece = "_1.bed" -> <<95, 49, 46, 98, 101, 100>>
      [] piece = ".txt" -> <<46, 116, 120, 116>>
      [] piece = ".x" -> <<46, 120>>
      [] piece = ".y" -> <<46, 121>>
      [] piece = "_0" -> <<95, 48>>
      [] piece = "_1" -> <<95, 49>>

RECURSIVE NameCodes(_)
NameCodes(name) ==
    IF name = <<>> THEN <<>>
    ELSE PieceCodes(name[1]) \o NameCodes(Tail(name))

\* Python's < on str: lexicographic on the code points
RECURSIVE CodesLess(_, _)
CodesLess(x, y) ==
    IF y = <<>> THEN FALSE
    ELSE IF x = <<>> THEN TRUE
    ELSE IF x[1] /= y[1] THEN x[1] < y[1]
    ELSE CodesLess(Tail(x), Tail(y))

StrLess(x, y) == CodesLess(NameCodes(x), NameCodes(y))

\* str.endswith(".bed") / the glob "*.bed"
EndsWithBed(name) ==
    name /= <<>> /\ name[Len(name)] \in {".bed", "_0.bed", "_1.bed"}

\* str.replace(piece, ""): every occurrence is removed
RECURSIVE PyReplace(_, _)
PyReplace(name, piece) ==
    IF name = <<>> THEN <<>>
    ELSE IF name[1] = piece THEN PyReplace(Tail(name), piece)
    ELSE <<name[1]>> \o PyReplace(Tail(name), piece)

\* re.sub(piece + "$", "", name): only an occurrence at the end is removed
ReSubAtEnd(name, piece) ==
    IF name /= <<>> /\ name[Len(name)] = piece THEN SubSeq(name, 1, Len(name) - 1)
    ELSE name

\* ========================================================================
\* global_ancestry.py
\* ========================================================================

\* sorted(): insertion of each path into the sorted rest
RECURSIVE sorted(_)
sorted(fs) ==
    IF fs = <<>> THEN <<>>
    ELSE LET rest == sorted(Tail(fs))
             LessThanHead(f) == StrLess(f, fs[1])
             NotLessThanHead(f) == ~StrLess(f, fs[1])
         IN  SelectSeq(rest, LessThanHead) \o <<fs[1]>> \o SelectSeq(rest, NotLessThanHead)

\* some enumeration of a finite set
RECURSIVE SetToSeq(_)
SetToSeq(S) ==
    IF S = {} THEN <<>>
    ELSE LET x == CHOOSE y \in S : TRUE IN <<x>> \o SetToSeq(S \ {x})

\* line 80: bed_file.name.replace("_0.bed", "").replace("_1.bed", "")
sample_name_of(name) == PyReplace(PyReplace(name, "_0.bed"), "_1.bed")

\* list_bed_files: the "*.bed" files grouped by sample name, the groups of
\* exactly two files kept, each sorted
list_bed_files(dir) ==
    LET found == {f \in DOMAIN dir : EndsWithBed(f)}
        names == {sample_name_of(f) : f \in found}
        Group(sample) == {f \in found : sample_name_of(f) = sample}
        kept == {sample \in names : Cardinality(Group(sample)) = 2}
    IN  [sample \in kept |-> sorted(SetToSeq(Group(sample)))]

\* load_bed_data: AssertionError unless both names give the same sample;
\* otherwise the rows of both files, all with that sample
load_bed_data(dir, bed_hap0, bed_hap1) ==
    LET sample_0 == ReSubAtEnd(bed_hap0, "_0.bed")
        sample_1 == ReSubAtEnd(bed_hap1, "_1.bed")
        both == dir[bed_hap0] \o dir[bed_hap1]
    IN  IF sample_0 /= sample_1 THEN [exc |-> "AssertionError", rows |-> <<>>]
        ELSE [exc |-> "",
              rows |-> [k \in 1..Len(both) |->
                          [sample |-> sample_0, ancestry |-> both[k].ancestry,
                           spos |-> both[k].spos, epos |-> both[k].epos]]]

\* the missing value of a BED field ("." or "NA" in the file)
NA == "NA"

\* a float: a ratio, NaN (0/0) or an infinity (x/0)
Ratio(n, d) ==
    IF d /= 0 THEN [kind |-> "num", num |-> n, den |-> d]
    ELSE IF n = 0 THEN [kind |-> "nan", num |-> 0, den |-> 0]
    ELSE [kind |-> "inf", num |-> n, den |-> 0]

NaN == Ratio(0, 0)

Zero == Ratio(0, 1)

\* groupby(...)["weight"].sum() of the rows satisfying Keep
RECURSIVE WeightSum(_, _)
WeightSum(rows, key) ==
    IF rows = <<>> THEN 0
    ELSE (IF <<rows[1].sample, rows[1].ancestry>> \in key
          THEN rows[1].epos - rows[1].spos ELSE 0) + WeightSum(Tail(rows), key)

groups_with_missing(rows) == {<<rows[k].sample, rows[k].ancestry>> : k \in 1..Len(rows)}

\* the keys of groupby(["sample", "ancestry"]): rows with a missing key are left out
groups(rows) ==
    {<<rows[k].sample, rows[k].ancestry>> : k \in {j \in 1..Len(rows) : rows[j].ancestry /= NA}}

\* compute_ancestry_proportions: per sample and ancestry, the summed weight
\* over the sample's summed weight; one row per sample, one cell per ancestry,
\* NaN where the sample has no segment of the ancestry
compute_ancestry_proportions(rows) ==
    LET keys == groups(rows)
        samples == {g[1] : g \in keys}
        ancestries == {g[2] : g \in keys}
        Total(s) == WeightSum(rows, {g \in keys : g[1] = s})
        Cell(s, a) == IF <<s, a>> \in keys
                      THEN Ratio(WeightSum(rows, {<<s, a>>}), Total(s))
                      ELSE NaN
        ordered == SetToSeq(samples)
    IN  [columns |-> ancestries,
         rows |-> [k \in 1..Len(ordered) |->
                     [sample |-> ordered[k],
                      cells |-> [a \in ancestries |-> Cell(ordered[k], a)]]]]

\* lines 110-111: pd.concat(..., ignore_index=True) and fillna(0)
RECURSIVE concat_rows(_, _)
concat_rows(frames, columns) ==
    IF frames = <<>> THEN <<>>
    ELSE LET f == frames[1]
             Filled(r) == [sample |-> r.sample,
                           cells |-> [a \in columns |->
                                        IF a \in f.columns /\ r.cells[a].kind /= "nan"
                                        THEN r.cells[a] ELSE Zero]]
         IN  [k \in 1..Len(f.rows) |-> Filled(f.rows[k])] \o concat_rows(Tail(frames), columns)

concat_fillna(frames) ==
    concat_rows(frames, UNION {frames[k].columns : k \in 1..Len(frames)})

\* ---- actions of main()

\* line 103
ListBedFiles ==
    /\ ga_pc = "start"
    /\ bed_files' = list_bed_files(bed_dir)
    /\ ga_pc' = "load"
    /\ UNCHANGED <<bed_dir, bed_data, ancestry_proportions, out_csv, ga_err>>
    /\ UNCHANGED notGA

\* line 106: one element of the list comprehension; the dictionary's order is
\* the directory listing's, which is any order
LoadBedData ==
    /\ ga_pc = "load"
    /\ Len(bed_data) < Cardinality(DOMAIN bed_files)
    /\ \E sample \in DOMAIN bed_files :
          /\ \A k \in 1..Len(bed_data) : bed_data[k].key /= sample
          /\ LET files_ == bed_files[sample]
                 got == load_bed_data(bed_dir, files_[1], files_[2])
             IN  IF got.exc /= ""
                 THEN /\ ga_pc' = "crashed"
                      /\ ga_err' = got.exc
                      /\ UNCHANGED bed_data
                 ELSE /\ bed_data' = Append(bed_data, [key |-> sample, rows |-> got.rows])
                      /\ UNCHANGED <<ga_pc, ga_err>>
    /\ UNCHANGED <<bed_dir, bed_files, ancestry_proportions, out_csv>>
    /\ UNCHANGED notGA

\* line 107
ComputeProportions ==
    /\ ga_pc = "load"
    /\ Len(bed_data) = Cardinality(DOMAIN bed_files)
    /\ ancestry_proportions' =
          [k \in 1..Len(bed_data) |-> compute_ancestry_proportions(bed_data[k].rows)]
    /\ ga_pc' = "save"
    /\ UNCHANGED <<bed_dir, bed_files, bed_data, out_csv, ga_err>>
    /\ UNCHANGED notGA

\* lines 110-114
SaveProportions ==
    /\ ga_pc = "save"
    /\ out_csv' = concat_fillna(ancestry_proportions)
    /\ ga_pc' = "done"
    /\ UNCHANGED <<bed_dir, bed_files, bed_data, ancestry_proportions, ga_err>>
    /\ UNCHANGED notGA

NextGA == ListBedFiles \/ LoadBedData \/ ComputeProportions \/ SaveProportions

\* ---- inputs

Ancestries == {"AFR", "EUR", NA}

\* segments of length 1, 2, 0 and -1
SegmentEnds == {<<0, 1>>, <<0, 2>>, <<1, 1>>, <<2, 1>>}

Segments == {[ancestry |-> a, spos |-> se[1], epos |-> se[2]] : a \in Ancestries, se \in SegmentEnds}

GAStart ==
    /\ ga_pc = "start"
    /\ bed_files = <<>>
    /\ bed_data = <<>>
    /\ ancestry_proportions = <<>>
    /\ out_csv = <<>>
    /\ ga_err = ""

\* Two samples with their two haplotype files, the segments of sample a varied
InitGA ==
    /\ \E a0 \in SeqsUpTo(Segments, MaxSegments), a1 \in SeqsUpTo(Segments, 1),
          b0 \in {<<[ancestry |-> "EUR", spos |-> 0, epos |-> 2]>>,
                  <<[ancestry |-> "AFR", spos |-> 0, epos |-> 1]>>} :
         bed_dir = (<<"a", "_0.bed">> :> a0) @@ (<<"a", "_1.bed">> :> a1)
                   @@ (<<"b", "_0.bed">> :> b0)
                   @@ (<<"b", "_1.bed">> :> <<[ancestry |-> "EUR", spos |-> 1, epos |-> 2]>>)
    /\ GAStart
    /\ MaskIdle
    /\ LaiIdle
    /\ SplitIdle
    /\ CBIdle
    /\ IPIdle

SpecGA == InitGA /\ [][NextGA]_vars

\* the file names of a BED directory: a stem, then one or two endings
BedNames ==
    {<<stem>> \o ending : stem \in {"a"},
                          ending \in UNION {[1..n -> {"_0.bed", "_1.bed", ".bed", ".txt"}] : n \in 1..2}}
    \cup {<<"b", "_0.bed">>, <<"b", "_1.bed">>}

\* Any directory of up to MaxFiles files, each with one segment
InitBed ==
    /\ \E names \in {S \in SUBSET BedNames : Cardinality(S) <= MaxFiles} :
         bed_dir = [f \in names |-> <<[ancestry |-> "AFR", spos |-> 0, epos |-> 1]>>]
    /\ GAStart
    /\ MaskIdle
    /\ LaiIdle
    /\ SplitIdle
    /\ CBIdle
    /\ IPIdle

SpecBed == InitBed /\ [][NextGA]_vars

\* ========================================================================
\* collect_beds.py
\* ========================================================================

\* the text of a piece before its '.', for the pieces that hold one
BeforeDot(piece) ==
    CASE piece = "_0.bed" -> <<"_0">>
      [] piece = "_1.bed" -> <<"_1">>
      [] OTHER -> <<>>

HasDot(piece) == piece \in {".bed", "_0.bed", "_1.bed", ".txt", ".x", ".y"}

\* the file name without a final '.bed'
RECURSIVE without_bed_extension(_)
without_bed_extension(filename) ==
    IF filename = <<>> THEN <<>>
    ELSE IF Len(filename) = 1
         THEN (IF EndsWithBed(filename) THEN BeforeDot(filename[1]) ELSE filename)
    ELSE <<filename[1]>> \o without_bed_extension(Tail(filename))

\* line 27: filename.split('.')[0], the text before the first '.'
RECURSIVE id_hap_of(_)
id_hap_of(filename) ==
    IF filename = <<>> THEN <<>>
    ELSE IF HasDot(filename[1]) THEN BeforeDot(filename[1])
    ELSE <<filename[1]>> \o id_hap_of(Tail(filename))

\* f"{id_hap}.bed"
WithBed(id_hap) ==
    IF id_hap /= <<>> /\ id_hap[Len(id_hap)] = "_0"
    THEN SubSeq(id_hap, 1, Len(id_hap) - 1) \o <<"_0.bed">>
    ELSE IF id_hap /= <<>> /\ id_hap[Len(id_hap)] = "_1"
    THEN SubSeq(id_hap, 1, Len(id_hap) - 1) \o <<"_1.bed">>
    ELSE id_hap \o <<".bed">>

\* lines 24-34: the inner loop over one directory's listing
RECURSIVE scan_listing(_, _, _)
scan_listing(listing, d, dict) ==
    IF listing = <<>> THEN dict
    ELSE LET filename == listing[1]
             id_hap == id_hap_of(filename)
             path == [dir |-> d, name |-> filename]
             files_ == IF id_hap \in DOMAIN dict.files THEN dict.files[id_hap] ELSE <<>>
             keys == IF id_hap \in DOMAIN dict.files THEN dict.keys ELSE Append(dict.keys, id_hap)
         IN  IF EndsWithBed(filename)
             THEN scan_listing(Tail(listing), d,
                               [files |-> [k \in DOMAIN dict.files \cup {id_hap} |->
                                              IF k = id_hap THEN Append(files_, path)
                                              ELSE dict.files[k]],
                                keys |-> keys])
             ELSE scan_listing(Tail(listing), d, dict)

\* pd.concat of the frames read from a list of paths
RECURSIVE concat_files(_, _)
concat_files(dirs, file_list) ==
    IF file_list = <<>> THEN <<>>
    ELSE dirs[file_list[1].dir][file_list[1].name] \o concat_files(dirs, Tail(file_list))

\* the orders os.listdir may return a directory's names in
Listings(names) ==
    {l \in [1..Cardinality(names) -> names] : \A j, k \in DOMAIN l : j /= k => l[j] /= l[k]}

\* ---- actions of main()

\* lines 22-34: one pass of the loop over bed_dirs
ScanDir ==
    /\ cb_pc = "scan"
    /\ cb_dir <= Len(bed_dirs)
    /\ \E listing \in Listings(DOMAIN bed_dirs[cb_dir]) :
          LET dict == scan_listing(listing, cb_dir, [files |-> id_hap_to_files, keys |-> id_haps])
          IN  /\ id_hap_to_files' = dict.files
              /\ id_haps' = dict.keys
    /\ cb_dir' = cb_dir + 1
    /\ cb_pc' = IF cb_dir = Len(bed_dirs) THEN "write" ELSE "scan"
    /\ UNCHANGED <<bed_dirs, outdir>>
    /\ UNCHANGED notCB

\* lines 40-52: one pass of the loop over id_hap_to_files
WriteBed ==
    /\ cb_pc = "write"
    /\ \E k \in 1..Len(id_haps) :
          /\ \A j \in 1..(k - 1) : WithBed(id_haps[j]) \in DOMAIN outdir
          /\ WithBed(id_haps[k]) \notin DOMAIN outdir
          /\ outdir' = [f \in DOMAIN outdir \cup {WithBed(id_haps[k])} |->
                          IF f = WithBed(id_haps[k])
                          THEN concat_files(bed_dirs, id_hap_to_files[id_haps[k]])
                          ELSE outdir[f]]
    /\ UNCHANGED <<bed_dirs, cb_pc, cb_dir, id_hap_to_files, id_haps>>
    /\ UNCHANGED notCB

\* lines 55-57: every ID_HAP is saved
CollectDone ==
    /\ cb_pc = "write"
    /\ \A k \in 1..Len(id_haps) : WithBed(id_haps[k]) \in DOMAIN outdir
    /\ cb_pc' = "done"
    /\ UNCHANGED <<bed_dirs, cb_dir, id_hap_to_files, id_haps, outdir>>
    /\ UNCHANGED notCB

NextCollect == ScanDir \/ WriteBed \/ CollectDone

CollectNames ==
    {<<"a", ".bed">>, <<"a", "_0.bed">>, <<"a", "_1.bed">>, <<"a", ".x", ".bed">>,
     <<"a", ".y", ".bed">>, <<"a", ".txt">>, <<"b", ".bed">>}

\* one to MaxDirs input directories of up to MaxFiles files; the one row of a
\* file tells the file it is from
InitCollect ==
    /\ \E n \in 1..MaxDirs :
         \E names \in [1..n -> {S \in SUBSET CollectNames : Cardinality(S) <= MaxFiles}] :
            bed_dirs = [d \in 1..n |-> [f \in names[d] |-> <<[dir |-> d, name |-> f]>>]]
    /\ cb_pc = "scan"
    /\ cb_dir = 1
    /\ id_hap_to_files = <<>>
    /\ id_haps = <<>>
    /\ outdir = <<>>
    /\ MaskIdle
    /\ LaiIdle
    /\ SplitIdle
    /\ GAIdle
    /\ IPIdle

SpecCollect == InitCollect /\ [][NextCollect]_vars

\* ========================================================================
\* ind2pop.py
\* ========================================================================
\* A frame is the sequence of its rows [id, label]: id is the value of the
\* column sample_id_col, label the value of the column covariate, a string
\* given as the sequence of its characters.  Missing values and columns of
\* numbers are not modelled.

MaxPopRows == 3

MaxOrder == 3

\* line 48: sample in popinfo[sample_id_col].values
in_values(sample, frame) == \E r \in 1..Len(frame) : frame[r].id = sample

\* line 52: popinfo[popinfo[sample_id_col].isin(sample_order)]
isin_filter(frame, order) ==
    LET kept(row) == row.id \in Range(order)
    IN  SelectSeq(frame, kept)

\* line 54: .set_index(sample_id_col).loc[sample_order].reset_index(): for
\* each requested ID in turn, every row of the frame carrying it, in the
\* frame's order
RECURSIVE loc(_, _)
loc(frame, order) ==
    IF order = <<>> THEN <<>>
    ELSE LET labelled(row) == row.id = order[1]
         IN  SelectSeq(frame, labelled) \o loc(frame, Tail(order))

\* line 61: .str.replace(" ", "_") of one value
str_replace(label) == [c \in 1..Len(label) |-> IF label[c] = " " THEN "_" ELSE label[c]]

\* line 71: .unique(): the distinct values in order of first appearance
RECURSIVE unique(_)
unique(values) ==
    IF values = <<>> THEN <<>>
    ELSE LET before == unique(SubSeq(values, 1, Len(values) - 1))
             last == values[Len(values)]
         IN  IF last \in Range(before) THEN before ELSE Append(before, last)

\* lines 46-61: the assertion, then the filtered and reordered labels
SelectLabels ==
    /\ ip_pc = "start"
    /\ IF \A k \in 1..Len(sample_order) : in_values(sample_order[k], popinfo)
       THEN LET popinfo_filtered == loc(isin_filter(popinfo, sample_order), sample_order)
            IN  /\ ind2pop_data' = [r \in 1..Len(popinfo_filtered) |->
                                       str_replace(popinfo_filtered[r].label)]
                /\ ip_pc' = "ind2pop"
       ELSE /\ ip_pc' = "crashed"
            /\ UNCHANGED ind2pop_data
    /\ UNCHANGED <<popinfo, sample_order, ind2pop_txt, pop_order_txt>>
    /\ UNCHANGED notIP

\* lines 64-66: write ind2pop.txt
WriteInd2pop ==
    /\ ip_pc = "ind2pop"
    /\ ind2pop_txt' = [exists |-> TRUE, lines |-> ind2pop_data]
    /\ ip_pc' = "pop_order"
    /\ UNCHANGED <<popinfo, sample_order, ind2pop_data, pop_order_txt>>
    /\ UNCHANGED notIP

\* lines 71-75: write pop_order.txt
WritePopOrder ==
    /\ ip_pc = "pop_order"
    /\ pop_order_txt' = [exists |-> TRUE, lines |-> unique(ind2pop_data)]
    /\ ip_pc' = "done"
    /\ UNCHANGED <<popinfo, sample_order, ind2pop_data, ind2pop_txt>>
    /\ UNCHANGED notIP

NextInd2pop == SelectLabels \/ WriteInd2pop \/ WritePopOrder

PopIds == {"s1", "s2"}

OrderIds == {"s1", "s2", "s3"}

Labels == {<<"A">>, <<"A", " ", "B">>, <<"A", "_", "B">>}

\* a population info file of up to MaxPopRows rows and a sample order file of
\* one to MaxOrder lines; neither output file exists
InitInd2pop ==
    /\ popinfo \in SeqsUpTo([id : PopIds, label : Labels], MaxPopRows)
    /\ sample_order \in SeqsUpTo(OrderIds, MaxOrder) \ {<<>>}
    /\ ip_pc = "start"
    /\ ind2pop_data = <<>>
    /\ ind2pop_txt = NoFile
    /\ pop_order_txt = NoFile
    /\ MaskIdle
    /\ LaiIdle
    /\ SplitIdle
    /\ GAIdle
    /\ CBIdle

SpecInd2pop == InitInd2pop /\ [][NextInd2pop]_vars

\* ========================================================================
\* Properties of mask_ancestry.py
\* ========================================================================

\* the rows of the restricted MSP data whose interval covers pos
CoveringRows(pos) ==
    {j \in 1..Len(lai_data) : lai_data[j].spos <= pos /\ pos <= lai_data[j].epos}

CoveredOnce(k) == Cardinality(CoveringRows(vcf[k].POS)) = 1

NotCoveredOnce(k) == ~CoveredOnce(k)

\* the ancestry code, as text, of haplotype h of sample s in row j
CodeAt(j, s, h) == PyStr(lai_data[j].anc[HapColumn(VcfSamples[s], h)])

WrittenIndices == [k \in 1..Len(written) |-> written[k].idx]

Haplotypes == {<<s, h>> : s \in 1..Len(VcfSamples), h \in {0, 1}}

\* C1: in every record written to the output VCF, every sample haplotype
\* whose ancestry code in the single interval covering the record's position
\* differs from ANC has the missing allele -1.
C1_OtherAncestryIsMissing ==
    \A k \in 1..Len(written) : \A sh \in Haplotypes :
        LET w == written[k].rec
            rows == CoveringRows(w.POS)
        IN  \A j \in rows :
                (Cardinality(rows) = 1 /\ CodeAt(j, sh[1], sh[2]) /= ANC)
                    => w.genotypes[sh[1]][sh[2] + 1] = -1

\* C2: in every record written to the output VCF, every sample haplotype
\* whose ancestry code at the record's position equals ANC has the allele of
\* the input record, and the record has the input's samples in their order.
C2_AncestryKeepsAllele ==
    \A k \in 1..Len(written) :
        LET w == written[k].rec
            v == vcf[written[k].idx]
            rows == CoveringRows(w.POS)
        IN  /\ Len(w.genotypes) = Len(v.genotypes)
            /\ Len(w.genotypes) = Len(VcfSamples)
            /\ \A sh \in Haplotypes : \A j \in rows :
                   (Cardinality(rows) = 1 /\ CodeAt(j, sh[1], sh[2]) = ANC)
                       => w.genotypes[sh[1]][sh[2] + 1] = v.genotypes[sh[1]][sh[2] + 1]

\* a record was written with one haplotype set to -1 and another, of the
\* ancestry ANC, left with its called allele
C2_Witness ==
    \E k \in 1..Len(written) : \E kept, gone \in Haplotypes :
        LET w == written[k].rec
            v == vcf[written[k].idx]
        IN  /\ \A j \in CoveringRows(w.POS) : CodeAt(j, kept[1], kept[2]) = ANC
            /\ w.genotypes[kept[1]][kept[2] + 1] \in {0, 1}
            /\ v.genotypes[gone[1]][gone[2] + 1] /= -1
            /\ w.genotypes[gone[1]][gone[2] + 1] = -1

\* C3 as stated: when main() has ended, the records written are exactly the
\* input variants covered by exactly one interval of the restricted MSP data,
\* in input order, and the others were skipped with a warning.
C3_OutputIsCoveredOnceSubsequence ==
    pc \in {"done", "crashed"} =>
        LET all == [k \in 1..Len(vcf) |-> k]
        IN  /\ WrittenIndices = SelectSeq(all, CoveredOnce)
            /\ warnings = SelectSeq(all, NotCoveredOnce)

\* C3 amended: at every point of the scan the records written are exactly the
\* variants read so far that are covered by exactly one interval, in input
\* order, and the other variants read so far were skipped with a warning; a
\* scan that reaches the end has read every variant; a scan that aborts does
\* so with KeyError, on a variant covered once, for a sample without columns.
C3_ScannedCoveredOnceAreWritten ==
    pc \in {"scan", "done", "crashed"} =>
        LET scanned == [k \in 1..(i - 1) |-> k]
        IN  /\ WrittenIndices = SelectSeq(scanned, CoveredOnce)
            /\ warnings = SelectSeq(scanned, NotCoveredOnce)
            /\ \A k \in 1..Len(written) :
                   /\ written[k].rec.POS = vcf[written[k].idx].POS
                   /\ written[k].rec.CHROM = vcf[written[k].idx].CHROM
            /\ pc = "done" => i = Len(vcf) + 1
            /\ pc = "crashed" =>
                   /\ err = "KeyError"
                   /\ CoveredOnce(i)
                   /\ msp.columns /= AllColumns

\* the scan ended after skipping a variant covered by two intervals and then
\* writing a later one
C3_Witness ==
    /\ pc = "done"
    /\ \E a \in Range(warnings), b \in Range(WrittenIndices) :
          /\ a < b
          /\ Cardinality(CoveringRows(vcf[a].POS)) > 1

\* C4: retrieve_lai_at returns exactly the one row with spos <= pos <= epos
\* whose chromosome is chrom, and raises ValueError when no row or several
\* rows qualify, in particular for a position that is the epos of one
\* interval and the spos of another.
C4_RetrieveExactlyOne ==
    ret /= NotCalled =>
        LET lai == call.lai_data
            Hit(j) == /\ lai[j].spos <= call.pos
                      /\ call.pos <= lai[j].epos
                      /\ PyStr(lai[j].chm) = PyStr(call.chrom)
            hits == {j \in 1..Len(lai) : Hit(j)}
        IN  /\ Cardinality(hits) = 1 =>
                   /\ ret.exc = ""
                   /\ ret.lai_pos = <<lai[CHOOSE j \in hits : TRUE]>>
            /\ Cardinality(hits) /= 1 => ret.exc = "ValueError" /\ ret.lai_pos = <<>>
            /\ (\E j, k \in hits : j /= k /\ lai[j].epos = call.pos /\ lai[k].spos = call.pos)
                   => ret.exc = "ValueError" /\ ret.msg = "multiple ranges"

\* one row was returned although a row of another chromosome covers the
\* position too
C4_Witness ==
    /\ ret.exc = ""
    /\ Len(ret.lai_pos) = 1
    /\ \E j \in 1..Len(call.lai_data) :
          /\ call.lai_data[j].spos <= call.pos
          /\ call.pos <= call.lai_data[j].epos
          /\ PyStr(call.lai_data[j].chm) /= PyStr(call.chrom)

VcfChromosomes == {vcf[k].CHROM : k \in 1..Len(vcf)}

MspChromosomes == {msp.rows[k].chm : k \in 1..Len(msp.rows)}

ChromosomesDiffer ==
    \E c \in VcfChromosomes, d \in MspChromosomes : PyStr(c) /= PyStr(d)

NothingOpened ==
    /\ pc = "error"
    /\ writer = "none"
    /\ written = <<>>
    /\ warnings = <<>>
    /\ i = 0

\* C5 as stated: with other than exactly one chromosome in the VCF or in the
\* MSP file, or two chromosomes that differ as strings, loading raises
\* ValueError and nothing is opened or processed.
C5_BadChromosomesRaiseValueError ==
    (pc /= "start" /\ files.vcf /\ files.msp
        /\ (Cardinality(VcfChromosomes) /= 1 \/ Cardinality(MspChromosomes) /= 1
            \/ ChromosomesDiffer))
    => (err = "ValueError" /\ NothingOpened)

\* C5 amended: a VCF with variants on several chromosomes, or, for a VCF with
\* variants on one chromosome, an MSP file with other than exactly one
\* chromosome or a chromosome that differs as a string, raises ValueError; a
\* VCF without variants raises TypeError; in each case nothing is opened or
\* processed.
C5_BadChromosomesRaiseBeforeOpen ==
    (pc /= "start" /\ files.vcf /\ files.msp) =>
        /\ Len(vcf) = 0 => (err = "TypeError" /\ NothingOpened)
        /\ (Len(vcf) > 0
              /\ (Cardinality(VcfChromosomes) > 1 \/ Cardinality(MspChromosomes) /= 1
                  \/ ChromosomesDiffer))
           => (err = "ValueError" /\ NothingOpened)

\* loading failed on one VCF chromosome and one MSP chromosome that differ
C5_Witness ==
    /\ pc = "error"
    /\ err = "ValueError"
    /\ Cardinality(VcfChromosomes) = 1
    /\ Cardinality(MspChromosomes) = 1
    /\ ChromosomesDiffer

\* the sample of index s has its two columns in the MSP file
HasColumns(s) == {HapColumn(VcfSamples[s], 0), HapColumn(VcfSamples[s], 1)} \subseteq msp.columns

\* the written record w of the input variant v is masked on every haplotype
\* of another ancestry than ANC and only there, or on none
WhollyMasked(w, v) ==
    LET rows == CoveringRows(v.POS)
        due(sh) == \E j \in rows : CodeAt(j, sh[1], sh[2]) /= ANC
    IN  \/ \A sh \in Haplotypes :
              w.genotypes[sh[1]][sh[2] + 1] = IF due(sh) THEN -1 ELSE v.genotypes[sh[1]][sh[2] + 1]
        \/ \A sh \in Haplotypes :
              w.genotypes[sh[1]][sh[2] + 1] = v.genotypes[sh[1]][sh[2] + 1]

\* every written record is of a variant covered by one interval in which
\* every VCF sample has its columns, and is not partially masked
NeverPartiallyMasked ==
    \A k \in 1..Len(written) :
        /\ CoveredOnce(written[k].idx)
        /\ \A s \in 1..Len(VcfSamples) : HasColumns(s)
        /\ WhollyMasked(written[k].rec, vcf[written[k].idx])

\* a variant skipped with a warning left no record
SkippedLeaveNoRecord == \A k \in Range(warnings) : k \notin Range(WrittenIndices)

\* main() ended with an uncaught KeyError: the variant it was at left no
\* record and the output was not closed
AbortLeavesOutputOpen ==
    pc = "crashed" =>
        /\ err = "KeyError"
        /\ writer = "open"
        /\ i \notin Range(WrittenIndices)
        /\ \E s \in 1..Len(VcfSamples) : ~HasColumns(s)

\* C12 as stated: no record is written partially masked, a variant whose
\* lookup fails (also for a sample without columns) is skipped, and every
\* scan reaches vcf_writer.close() after the last variant.
C12_EveryScanCloses ==
    /\ [](NeverPartiallyMasked /\ SkippedLeaveNoRecord)
    /\ [](pc /= "crashed")
    /\ (pc = "scan") ~> (pc = "done" /\ writer = "closed" /\ i = Len(vcf) + 1)

\* C12 amended: no record is written partially masked; a scan in which every
\* VCF sample has its columns in the MSP file reaches vcf_writer.close() after
\* the last variant; a scan that aborts does so with KeyError for a sample
\* without columns and leaves the output open.
C12_ScanWithAllColumnsCloses ==
    /\ [](NeverPartiallyMasked /\ SkippedLeaveNoRecord /\ AbortLeavesOutputOpen)
    /\ [](writer = "closed" => pc = "done")
    /\ (pc = "scan" /\ \A s \in 1..Len(VcfSamples) : HasColumns(s))
          ~> (pc = "done" /\ writer = "closed" /\ i = Len(vcf) + 1)

\* the output was closed after a scan that skipped one variant and wrote
\* another with a haplotype masked
C12_Witness ==
    /\ pc = "done"
    /\ writer = "closed"
    /\ warnings /= <<>>
    /\ \E k \in 1..Len(written) : \E sh \in Haplotypes :
          /\ vcf[written[k].idx].genotypes[sh[1]][sh[2] + 1] /= -1
          /\ written[k].rec.genotypes[sh[1]][sh[2] + 1] = -1

\* ========================================================================
\* Properties of vcf_sipliter.py
\* ========================================================================

\* how many times record k was written to output file f
TimesIn(f, k) == Cardinality({j \in 1..Len(out_vcfs[f]) : out_vcfs[f][j] = k})

\* C6: when main() has written the n_split files of a single-chromosome VCF
\* with at least n_split variants, every input record is in exactly one
\* output file, once.
C6_EveryRecordInExactlyOneFile ==
    sp_pc = "done" =>
        /\ Len(out_vcfs) = n_split
        /\ \A k \in 1..Len(sp_vcf) :
              \E f \in 1..Len(out_vcfs) :
                 /\ TimesIn(f, k) = 1
                 /\ \A g \in 1..Len(out_vcfs) : g /= f => TimesIn(g, k) = 0

RECURSIVE Flatten(_)
Flatten(ss) == IF ss = <<>> THEN <<>> ELSE Flatten(SubSeq(ss, 1, Len(ss) - 1)) \o ss[Len(ss)]

\* C7: for sorted positions with n_split >= 1 and at least n_split positions,
\* split_positions returns n_split regions 'chrom:first-last' of consecutive,
\* non-empty chunks whose sizes differ by at most one, each region's first
\* position <= its last and <= the next region's first; otherwise it raises
\* ValueError.
C7_SplitPositions ==
    sp_pc \in {"write", "done", "error"} /\ sp_err /= "RuntimeError" =>
        IF n_split >= 1 /\ Len(sp_positions) >= n_split
        THEN /\ sp_err = ""
             /\ Len(regions) = n_split
             /\ Len(pos_splits) = n_split
             /\ Flatten(pos_splits) = sp_positions
             /\ \A k \in 1..n_split :
                   /\ Len(pos_splits[k]) >= 1
                   /\ regions[k].first = pos_splits[k][1]
                   /\ regions[k].last = pos_splits[k][Len(pos_splits[k])]
                   /\ regions[k].text = sp_chrom \o ":" \o ToString(regions[k].first)
                                            \o "-" \o ToString(regions[k].last)
                   /\ regions[k].first <= regions[k].last
                   /\ k < n_split => regions[k].first <= regions[k + 1].first
             /\ \A j, k \in 1..n_split : Len(pos_splits[j]) - Len(pos_splits[k]) <= 1
        ELSE /\ sp_err = "ValueError"
             /\ sp_pc = "error"
             /\ regions = <<>>

\* positions were split into chunks of two different sizes
C7_Witness ==
    /\ sp_pc = "write"
    /\ n_split >= 2
    /\ \E j, k \in 1..Len(pos_splits) : Len(pos_splits[j]) /= Len(pos_splits[k])

\* ========================================================================
\* Properties of global_ancestry.py
\* ========================================================================

\* the sum of epos - spos over the segments whose ancestry is in ancs
RECURSIVE SegmentSum(_, _)
SegmentSum(segs, ancs) ==
    IF segs = <<>> THEN 0
    ELSE (IF segs[1].ancestry \in ancs THEN segs[1].epos - segs[1].spos ELSE 0)
         + SegmentSum(Tail(segs), ancs)

\* the segments of both haplotype files of a sample of the dictionary
SegmentsOf(sample) == bed_dir[bed_files[sample][1]] \o bed_dir[bed_files[sample][2]]

HasAncestry(segs, a) == \E k \in 1..Len(segs) : segs[k].ancestry = a

\* the value of a cell is n / d
CellIs(c, n, d) == c.kind = "num" /\ c.num * d = n * c.den

CellInUnitInterval(c) ==
    c.kind = "num" /\ c.num * c.den >= 0 /\ c.num * c.den <= c.den * c.den

\* numerator and denominator of the sum of the cells of the ancestries in as
RECURSIVE CellSum(_, _)
CellSum(cells, as) ==
    IF as = {} THEN <<0, 1>>
    ELSE LET a == CHOOSE x \in as : TRUE
             rest == CellSum(cells, as \ {a})
         IN  <<cells[a].num * rest[2] + rest[1] * cells[a].den, cells[a].den * rest[2]>>

CellsSumToOne(cells) ==
    LET total == CellSum(cells, DOMAIN cells)
    IN  total[2] /= 0 /\ total[1] = total[2]

\* the statement of C8 with the sample's total taken over the ancestries in
\* counted, and the bounds and the sum to one promised when Regular holds
ProportionsAre(counted, Regular(_)) ==
    ga_pc = "done" =>
        \A k \in 1..Len(out_csv) :
            LET row == out_csv[k]
                segs == SegmentsOf(row.sample)
                total == SegmentSum(segs, counted)
            IN  /\ \A a \in DOMAIN row.cells :
                      /\ (HasAncestry(segs, a) /\ total /= 0)
                            => CellIs(row.cells[a], SegmentSum(segs, {a}), total)
                      /\ ~HasAncestry(segs, a) => CellIs(row.cells[a], 0, 1)
                /\ (total > 0 /\ Regular(segs)) =>
                      /\ \A a \in DOMAIN row.cells : CellInUnitInterval(row.cells[a])
                      /\ CellsSumToOne(row.cells)

AnySegments(segs) == TRUE

NoNegativeLength(segs) ==
    \A k \in 1..Len(segs) : segs[k].ancestry /= NA => segs[k].epos >= segs[k].spos

\* C8 as stated: each reported proportion of ancestry a is the summed length
\* of the sample's segments of ancestry a over the summed length of all of
\* the sample's segments; with a positive total the proportions of a sample
\* lie in 0..1 and sum to 1; an ancestry absent from a sample is reported as 0.
C8_ProportionOfAllSegments == ProportionsAre(Ancestries, AnySegments)

\* C8 amended: the denominator is the summed length of the sample's segments
\* whose ancestry is not missing, and the bounds and the sum to one hold when
\* that total is positive and no such segment has epos < spos.
C8_ProportionOfSegmentsWithAncestry == ProportionsAre(Ancestries \ {NA}, NoNegativeLength)

\* a sample with a segment of missing ancestry and positive length was
\* reported with 1 for its only ancestry and with 0 for an ancestry it lacks
C8_Witness ==
    /\ ga_pc = "done"
    /\ \E k \in 1..Len(out_csv) :
          LET row == out_csv[k]
              segs == SegmentsOf(row.sample)
          IN  /\ \E j \in 1..Len(segs) : segs[j].ancestry = NA /\ segs[j].epos > segs[j].spos
              /\ NoNegativeLength(segs)
              /\ \E a, b \in DOMAIN row.cells :
                    /\ HasAncestry(segs, a)
                    /\ row.cells[a].kind = "num"
                    /\ row.cells[a].num = row.cells[a].den
                    /\ ~HasAncestry(segs, b)
                    /\ row.cells[b] = Zero

\* C9: list_bed_files maps sample names to lists of exactly two paths, the
\* haplotype-0 file before the haplotype-1 file; a sample with one file or
\* more than two is left out; load_bed_data's assertion holds for every pair.
C9_PairsAreHap0Hap1 ==
    ga_pc /= "start" =>
        /\ \A sample \in DOMAIN bed_files :
              LET pair == bed_files[sample]
              IN  /\ Len(pair) = 2
                  /\ pair[1][Len(pair[1])] = "_0.bed"
                  /\ pair[2][Len(pair[2])] = "_1.bed"
                  /\ ReSubAtEnd(pair[1], "_0.bed") = ReSubAtEnd(pair[2], "_1.bed")
        /\ \A f \in DOMAIN bed_dir :
              LET sample == sample_name_of(f)
                  group == {g \in DOMAIN bed_dir : EndsWithBed(g) /\ sample_name_of(g) = sample}
              IN  Cardinality(group) /= 2 => sample \notin DOMAIN bed_files

\* ========================================================================
\* Properties of collect_beds.py
\* ========================================================================

\* the rows of the files named filename, in the order of the directories
RECURSIVE RowsNamed(_, _)
RowsNamed(filename, d) ==
    IF d > Len(bed_dirs) THEN <<>>
    ELSE (IF filename \in DOMAIN bed_dirs[d] THEN bed_dirs[d][filename] ELSE <<>>)
         \o RowsNamed(filename, d + 1)

\* C10: with ID_HAP the file name without '.bed', the output directory holds,
\* for every '*.bed' input file, '<ID_HAP>.bed' with the rows of all input
\* files of that ID_HAP in the order of the directories, so files of
\* different names are never merged into one output file.
C10_OneOutputPerName ==
    cb_pc = "done" =>
        /\ \A d \in 1..Len(bed_dirs) : \A f \in DOMAIN bed_dirs[d] :
              EndsWithBed(f) =>
                  /\ WithBed(without_bed_extension(f)) \in DOMAIN outdir
                  /\ outdir[WithBed(without_bed_extension(f))] = RowsNamed(f, 1)
        /\ \A o \in DOMAIN outdir : \A j, k \in 1..Len(outdir[o]) :
              outdir[o][j].name = outdir[o][k].name

\* ========================================================================
\* Properties of ind2pop.py
\* ========================================================================

\* the position of the first line equal to v
FirstAt(lines, v) == CHOOSE k \in 1..Len(lines) : lines[k] = v /\ \A j \in 1..(k - 1) : lines[j] /= v

EverySampleInPopinfo ==
    \A k \in 1..Len(sample_order) : \E r \in 1..Len(popinfo) : popinfo[r].id = sample_order[k]

\* C11: when every sample ID of the sample order file is in popinfo,
\* ind2pop.txt has one line per entry of the sample order file, line i the
\* covariate value of sample i with spaces replaced by underscores, and
\* pop_order.txt lists each distinct label once in order of first
\* appearance; otherwise the assertion fails and no output file is written.
C11_OneLinePerSample ==
    IF EverySampleInPopinfo
    THEN ip_pc = "done" =>
            LET lines == ind2pop_txt.lines
                pops == pop_order_txt.lines
            IN  /\ ind2pop_txt.exists /\ pop_order_txt.exists
                /\ Len(lines) = Len(sample_order)
                /\ \A k \in 1..Len(lines) :
                      /\ k <= Len(sample_order)
                      /\ \E r \in 1..Len(popinfo) :
                            /\ popinfo[r].id = sample_order[k]
                            /\ Len(lines[k]) = Len(popinfo[r].label)
                            /\ \A c \in 1..Len(lines[k]) :
                                  lines[k][c] = IF popinfo[r].label[c] = " "
                                                THEN "_" ELSE popinfo[r].label[c]
                /\ Range(pops) = Range(lines)
                /\ \A j, k \in 1..Len(pops) :
                      j < k => pops[j] /= pops[k] /\ FirstAt(lines, pops[j]) < FirstAt(lines, pops[k])
    ELSE /\ ip_pc \in {"start", "crashed"}
         /\ ~ind2pop_txt.exists
         /\ ~pop_order_txt.exists

====
